---- MODULE Spec2Model ----
(***************************************************************************)
(* A model of the SHARP Studio GUI server (src/src/sharp/gui/app.py): the  *)
(* predictor cache, the global inference lock, the output-root registry,   *)
(* the predict worker, the path gateway and the per-run file naming.       *)
(*                                                                         *)
(* Paths are absolute paths written as sequences of components:            *)
(* <<"out1", "run-1", "bundle.zip">> is /out1/run-1/bundle.zip.            *)
(* File names are sequences of one-character strings where the code looks  *)
(* inside a name (safe_filename, unique_filename).                         *)
(***************************************************************************)
EXTENDS Integers, Sequences, FiniteSets, TLC

\* ------------------------------------------------------------------ bounds
\* Run directories created in one behaviour (requests that pass validation).
MaxRuns == 2
\* Images in one upload batch of the server specification.
MaxImages == 2
\* Components of a candidate path handed to the path gateway.
MaxPathLen == 3
\* Uploads in one batch of the file naming specification.
MaxUploads == 2

\* Worker threads started by asyncio.to_thread, one per request in flight.
Threads == {"t1", "t2"}

None == "None"
NoPath == <<>>

\* The folders the user can pick as output root (already normalized, existing).
R1 == <<"out1">>
R2 == <<"out2">>
Roots == {R1, R2}

\* The values of the form field `device`; "tpu" stands for any unrecognized one.
RequestedDevices == {"default", "cpu", "cuda", "mps", "tpu"}

\* Contents of uploaded weights files: wSafe deserializes with weights_only=True,
\* wPickle raises UnpicklingError there and needs weights_only=False.
Weights == {"wSafe", "wPickle"}

\* torch.cuda.is_available() and torch.mps.is_available(): CUDA and Apple's MPS
\* are never found on the same machine.
Hardware == {<<TRUE, FALSE>>, <<FALSE, TRUE>>, <<FALSE, FALSE>>}

VARIABLES
    INFERENCE_LOCK,  \* holder of INFERENCE_LOCK, or None
    cache_lock,      \* holder of PredictorCache._lock, or None
    models,          \* PredictorCache._models: key -> predictor instance
    unsafe,          \* PredictorCache._unsafe: key -> BOOLEAN
    loads,           \* successful loads per key (load-count instrumentation)
    next_predictor,  \* instances created so far
    root,            \* OutputState._root
    runs,            \* OutputState._runs: run_id -> root
    dirs,            \* directories on disk (run directories, _checkpoints)
    fs,              \* regular files on disk: path -> content
    links,           \* symbolic links on disk: path -> target path
    cuda,            \* torch.cuda.is_available()
    mps,             \* torch.mps.is_available()
    pc,              \* position of each worker thread
    loc,             \* locals of each worker thread
    next_run,        \* run ids generated so far
    output_lock,     \* holder of OutputState._lock, or None
    ev,              \* the event loop: the handler it runs and where it stands
    gw,              \* path gateway specification: last ensure_within call
    nm               \* file naming specification: state of one run's image loop

vars == <<INFERENCE_LOCK, cache_lock, models, unsafe, loads, next_predictor, root,
          runs, dirs, fs, links, cuda, mps, pc, loc, next_run, output_lock, ev,
          gw, nm>>

loopVars == <<output_lock, ev>>
cacheVars == <<models, unsafe, loads, next_predictor>>
diskVars == <<dirs, fs, links>>
hwVars == <<cuda, mps>>

\* ------------------------------------------------------------------- paths
Parent(p) == IF p = <<>> THEN <<>> ELSE SubSeq(p, 1, Len(p) - 1)

\* Path.resolve(): walk the components left to right; "." is dropped, ".."
\* steps to the parent of the path resolved so far, a symbolic link is replaced
\* by its (absolute) target and the walk goes on from there.
RECURSIVE Walk(_, _)
Walk(cur, rest) ==
    IF rest = <<>> THEN cur
    ELSE LET c == Head(rest)
             t == Tail(rest)
         IN IF c = "." THEN Walk(cur, t)
            ELSE IF c = ".." THEN Walk(Parent(cur), t)
            ELSE IF Append(cur, c) \in DOMAIN links
                 THEN Walk(<<>>, links[Append(cur, c)] \o t)
                 ELSE Walk(Append(cur, c), t)

\* A resolve that normalizes ".." lexically and follows no symbolic link.
ResolveNoLinks(p) ==
    LET RECURSIVE Norm(_, _)
        Norm(cur, rest) ==
            IF rest = <<>> THEN cur
            ELSE IF Head(rest) = "." THEN Norm(cur, Tail(rest))
            ELSE IF Head(rest) = ".." THEN Norm(Parent(cur), Tail(rest))
                 ELSE Norm(Append(cur, Head(rest)), Tail(rest))
    IN Norm(<<>>, p)

Resolve(p) == Walk(<<>>, p)

\* PurePath.is_relative_to: `other` is a prefix of `p`, component by component.
IsRelativeTo(p, other) ==
    /\ Len(other) <= Len(p)
    /\ SubSeq(p, 1, Len(other)) = other

\* ensure_within: the resolved candidate, or the 400 "Invalid path." error.
ensure_within(r, candidate) ==
    LET resolved_root == Resolve(r)
        resolved_candidate == Resolve(candidate)
    IN IF ~IsRelativeTo(resolved_candidate, resolved_root)
       THEN [status |-> 400, path |-> NoPath]
       ELSE [status |-> 200, path |-> resolved_candidate]

\* ----------------------------------------------------------------- devices
\* resolve_device: the concrete device, or the ValueError that process_inference
\* turns into a 400.
resolve_device(requested) ==
    IF requested = "default"
    THEN [status |-> 200, detail |-> None,
          device |-> IF cuda THEN "cuda" ELSE IF mps THEN "mps" ELSE "cpu"]
    ELSE IF requested \notin {"cpu", "cuda", "mps"}
    THEN [status |-> 400, detail |-> "InvalidDevice", device |-> None]
    ELSE IF requested = "cuda" /\ ~cuda
    THEN [status |-> 400, detail |-> "DeviceUnavailable", device |-> None]
    ELSE IF requested = "mps" /\ ~mps
    THEN [status |-> 400, detail |-> "DeviceUnavailable", device |-> None]
    ELSE [status |-> 200, detail |-> None, device |-> requested]

\* ------------------------------------------------------- checkpoint store
\* hashlib.sha256(content).hexdigest(): distinct contents, distinct digests.
HexDigest(content) ==
    CASE content = "wSafe" -> "5afe"
      [] content = "wPickle" -> "91c4"

\* store_checkpoint: the path of the stored file under the given output root.
checkpoint_path_of(content, output_root) ==
    output_root \o <<"_checkpoints", HexDigest(content) \o ".pt">>

\* ---------------------------------------------------------- PredictorCache
DefaultId == <<"default">>

CacheKey(checkpoint_path, device) ==
    [ckpt |-> IF checkpoint_path = NoPath THEN DefaultId ELSE checkpoint_path,
     device |-> device]

\* torch.load(path, weights_only=True) returns a state dict (or raises
\* UnpicklingError / RuntimeError).
SafeLoadOk(content) == content = "wSafe"

GetResult(branch, events, status, detail, stored, used_unsafe) ==
    [branch |-> branch, events |-> events, status |-> status, detail |-> detail,
     stored |-> stored, used_unsafe |-> used_unsafe]

\* No call of get made yet.
NoGet == GetResult("none", <<>>, 0, None, FALSE, FALSE)

\* A lookup that trusts the entry whatever the caller allows.
lookupStickyTrust(key, allow_unsafe) ==
    GetResult("hit", <<>>, 200, None, FALSE,
              IF key \in DOMAIN unsafe THEN unsafe[key] ELSE FALSE)

\* A lookup that rebuilds the predictor of a cached key and stores it again.
lookupRefresh(key, allow_unsafe) ==
    GetResult("hit", <<>>, 200, None, TRUE, FALSE)

\* PredictorCache.get, lines 54-61: the key is cached.
lookup(key, allow_unsafe) ==
    LET used_unsafe == IF key \in DOMAIN unsafe THEN unsafe[key] ELSE FALSE
    IN IF used_unsafe /\ ~allow_unsafe
       THEN GetResult("hit", <<>>, 400, "UnsafeLoadRejected", FALSE, used_unsafe)
       ELSE GetResult("hit", <<>>, 200, None, FALSE, used_unsafe)

\* A load that falls back to full deserialization without asking the caller.
loadNoOptIn(checkpoint_path, allow_unsafe, rest_ok) ==
    IF checkpoint_path = NoPath
    THEN GetResult("miss", <<"download">>, IF rest_ok THEN 200 ELSE 500,
                   IF rest_ok THEN None ELSE "LoadFailed", rest_ok, FALSE)
    ELSE IF SafeLoadOk(fs[checkpoint_path])
    THEN GetResult("miss", <<"safe">>, IF rest_ok THEN 200 ELSE 500,
                   IF rest_ok THEN None ELSE "LoadFailed", rest_ok, FALSE)
    ELSE GetResult("miss", <<"safe", "unsafe">>, IF rest_ok THEN 200 ELSE 500,
                   IF rest_ok THEN None ELSE "LoadFailed", rest_ok, rest_ok)

\* PredictorCache.get, lines 63-91: the key is not cached. Which
\* deserializations the call attempts (events), how it ends, and whether it
\* stores an entry. rest_ok is whether what follows the safe attempt raises
\* nothing: the download of the default model, the full deserialization,
\* load_state_dict.
load(checkpoint_path, allow_unsafe, rest_ok) ==
    IF checkpoint_path = NoPath
    THEN IF rest_ok
         THEN GetResult("miss", <<"download">>, 200, None, TRUE, FALSE)
         ELSE GetResult("miss", <<"download">>, 500, "LoadFailed", FALSE, FALSE)
    ELSE IF SafeLoadOk(fs[checkpoint_path])
    THEN IF rest_ok
         THEN GetResult("miss", <<"safe">>, 200, None, TRUE, FALSE)
         ELSE GetResult("miss", <<"safe">>, 500, "LoadFailed", FALSE, FALSE)
    ELSE IF ~allow_unsafe
    THEN GetResult("miss", <<"safe">>, 400, "DeserializationRejected", FALSE, FALSE)
    ELSE IF rest_ok
    THEN GetResult("miss", <<"safe", "unsafe">>, 200, None, TRUE, TRUE)
    ELSE GetResult("miss", <<"safe", "unsafe">>, 500, "LoadFailed", FALSE, FALSE)

\* A get that never looks the key up.
getAlwaysLoad(checkpoint_path, device, allow_unsafe, rest_ok) ==
    load(checkpoint_path, allow_unsafe, rest_ok)

\* PredictorCache.get, the body under self._lock.
get(checkpoint_path, device, allow_unsafe, rest_ok) ==
    IF CacheKey(checkpoint_path, device) \in DOMAIN models
    THEN lookup(CacheKey(checkpoint_path, device), allow_unsafe)
    ELSE load(checkpoint_path, allow_unsafe, rest_ok)

\* ------------------------------------------------------------- OutputState
get_root == root

\* A set_root that moves the runs already bound to the new root.
set_rootRebind(r) ==
    /\ root' = r
    /\ runs' = [id \in DOMAIN runs |-> r]

set_root(r) ==
    /\ root' = r
    /\ runs' = runs

set_run_root(run_id, r) ==
    /\ runs' = (run_id :> r) @@ runs
    /\ root' = root

\* A fallback to the root the server started with.
get_run_rootFirst(run_id) == IF run_id \in DOMAIN runs THEN runs[run_id] ELSE R1

get_run_root(run_id) == IF run_id \in DOMAIN runs THEN runs[run_id] ELSE root

\* ------------------------------------------------------------ file gateway
\* A download that joins the names and checks nothing but existence.
download_fileNoCheck(run_id, filename) ==
    LET file_path == Resolve(get_run_root(run_id) \o <<run_id, filename>>)
    IN IF \E q \in DOMAIN fs \cup dirs \cup Roots : IsRelativeTo(q, file_path)
       THEN [status |-> 200, path |-> file_path]
       ELSE [status |-> 404, path |-> NoPath]

\* Path.exists() of a resolved path: a regular file, a directory the server
\* made, an output root, or an ancestor of one of these.
Exists(p) ==
    \E q \in DOMAIN fs \cup dirs \cup Roots : IsRelativeTo(q, p)

\* download_file: 400 from ensure_within, 404 for a path that does not exist,
\* else FileResponse(file_path).
download_file(run_id, filename) ==
    LET run_root == get_run_root(run_id)
        run_dir == ensure_within(run_root, Append(run_root, run_id))
        file_path == ensure_within(run_dir.path, Append(run_dir.path, filename))
    IN IF run_dir.status # 200 THEN [status |-> 400, path |-> NoPath]
       ELSE IF file_path.status # 200 THEN [status |-> 400, path |-> NoPath]
       ELSE IF ~Exists(file_path.path) THEN [status |-> 404, path |-> NoPath]
       ELSE [status |-> 200, path |-> file_path.path]

\* ------------------------------------------------------ the predict worker
\* The fields of a request are fixed when it is submitted and nothing reads
\* them before the worker does, so each is drawn where run() or
\* process_inference first reads it. `input` keeps what a rejected request
\* asked for, `checkpoint` the weights a request uploaded.
NoInput == [empty |-> FALSE, requested |-> None]

InitLoc ==
    [current_root |-> NoPath, device |-> None, run_id |-> None,
     checkpoint |-> None, checkpoint_path |-> NoPath, allow_unsafe |-> FALSE, got |-> NoGet,
     predictor |-> 0, used_unsafe |-> FALSE, index |-> 0, status |-> 0,
     detail |-> None, input |-> NoInput]

RunId(k) == "run-" \o ToString(k)

\* Requests in flight that have not created their run directory yet.
Pending ==
    {u \in Threads : pc[u] \in {"queued", "locked", "root", "validate", "mkdir"}}

\* predict: the request is read and run() is handed to a worker thread.
Submit(t) ==
    /\ pc[t] = "idle"
    /\ next_run + Cardinality(Pending) < MaxRuns
    /\ pc' = [pc EXCEPT ![t] = "queued"]
    /\ UNCHANGED <<loopVars, INFERENCE_LOCK, cache_lock, cacheVars, root, runs, diskVars,
                   hwVars, loc, next_run, gw, nm>>

\* An acquire that does not wait for the holder.
AcquireNoWait(t) ==
    /\ pc[t] = "queued"
    /\ INFERENCE_LOCK' = t
    /\ pc' = [pc EXCEPT ![t] = "locked"]
    /\ UNCHANGED <<loopVars, cache_lock, cacheVars, root, runs, diskVars, hwVars, loc,
                   next_run, gw, nm>>

\* run: with INFERENCE_LOCK
Acquire(t) ==
    /\ pc[t] = "queued"
    /\ INFERENCE_LOCK = None
    /\ INFERENCE_LOCK' = t
    /\ pc' = [pc EXCEPT ![t] = "locked"]
    /\ UNCHANGED <<loopVars, cache_lock, cacheVars, root, runs, diskVars, hwVars, loc,
                   next_run, gw, nm>>

\* run: current_root = output_state.get_root(), the whole of its
\* `with self._lock` block in one step.
GetRoot(t) ==
    /\ pc[t] = "locked"
    /\ output_lock = None
    /\ loc' = [loc EXCEPT ![t].current_root = get_root]
    /\ pc' = [pc EXCEPT ![t] = "validate"]
    /\ UNCHANGED <<loopVars, INFERENCE_LOCK, cache_lock, cacheVars, root, runs, diskVars,
                   hwVars, next_run, gw, nm>>

\* A process_inference that creates the run directory before it validates.
ValidateAfterMkdir(t) ==
    /\ pc[t] = "validate"
    /\ dirs' = dirs \cup {Append(loc[t].current_root, RunId(next_run + 1))}
    /\ \E empty \in BOOLEAN, requested \in RequestedDevices :
          LET dev == resolve_device(requested)
              input == [empty |-> empty, requested |-> requested]
          IN IF empty \/ dev.status # 200
             THEN /\ loc' = [loc EXCEPT
                        ![t].status = 400, ![t].input = input,
                        ![t].detail = IF empty THEN "NoInput" ELSE dev.detail]
                  /\ pc' = [pc EXCEPT ![t] = "exit"]
             ELSE /\ loc' = [loc EXCEPT ![t].device = dev.device]
                  /\ pc' = [pc EXCEPT ![t] = "mkdir"]
    /\ UNCHANGED <<loopVars, INFERENCE_LOCK, cache_lock, cacheVars, root, runs, fs, links,
                   hwVars, next_run, gw, nm>>

\* process_inference, lines 301-307: no images, or a device that does not
\* resolve, is a 400 before anything else happens. (The render decision of lines
\* 309-312 touches no shared state and is modelled in SpecNames.)
Validate(t) ==
    /\ pc[t] = "validate"
    /\ \E empty \in BOOLEAN, requested \in RequestedDevices :
          LET dev == resolve_device(requested)
              input == [empty |-> empty, requested |-> requested]
          IN IF empty
             THEN /\ loc' = [loc EXCEPT ![t].status = 400, ![t].detail = "NoInput",
                                        ![t].input = input]
                  /\ pc' = [pc EXCEPT ![t] = "exit"]
             ELSE IF dev.status # 200
             THEN /\ loc' = [loc EXCEPT ![t].status = 400, ![t].detail = dev.detail,
                                        ![t].input = input]
                  /\ pc' = [pc EXCEPT ![t] = "exit"]
             ELSE /\ loc' = [loc EXCEPT ![t].device = dev.device]
                  /\ pc' = [pc EXCEPT ![t] = "mkdir"]
    /\ UNCHANGED <<loopVars, INFERENCE_LOCK, cache_lock, cacheVars, root, runs, diskVars,
                   hwVars, next_run, gw, nm>>

\* process_inference, lines 314-316: a fresh run id and its directory.
MakeRunDir(t) ==
    /\ pc[t] = "mkdir"
    /\ next_run' = next_run + 1
    /\ loc' = [loc EXCEPT ![t].run_id = RunId(next_run + 1)]
    /\ dirs' = dirs \cup {Append(loc[t].current_root, RunId(next_run + 1))}
    /\ pc' = [pc EXCEPT ![t] = "store"]
    /\ UNCHANGED <<loopVars, INFERENCE_LOCK, cache_lock, cacheVars, root, runs, fs, links,
                   hwVars, gw, nm>>

\* A store that writes the upload whether or not the file exists.
StoreCheckpointRewrite(t) ==
    /\ pc[t] = "store"
    /\ \E checkpoint \in Weights \cup {None} :
          IF checkpoint = None
          THEN /\ loc' = [loc EXCEPT ![t].checkpoint_path = NoPath]
               /\ UNCHANGED <<dirs, fs>>
          ELSE LET checkpoint_path ==
                       checkpoint_path_of(checkpoint, loc[t].current_root)
               IN /\ dirs' = dirs \cup {Parent(checkpoint_path)}
                  /\ fs' = (checkpoint_path :> checkpoint) @@ fs
                  /\ loc' = [loc EXCEPT ![t].checkpoint = checkpoint,
                                        ![t].checkpoint_path = checkpoint_path]
    /\ pc' = [pc EXCEPT ![t] = "cache_wait"]
    /\ UNCHANGED <<loopVars, INFERENCE_LOCK, cache_lock, cacheVars, root, runs, links,
                   hwVars, next_run, gw, nm>>

\* process_inference, lines 318-320, with store_checkpoint: the file is written
\* only when no file of that name exists.
StoreCheckpoint(t) ==
    /\ pc[t] = "store"
    /\ \E checkpoint \in Weights \cup {None} :
          IF checkpoint = None
          THEN /\ loc' = [loc EXCEPT ![t].checkpoint_path = NoPath]
               /\ UNCHANGED <<dirs, fs>>
          ELSE LET checkpoint_path ==
                       checkpoint_path_of(checkpoint, loc[t].current_root)
               IN /\ dirs' = dirs \cup {Parent(checkpoint_path)}
                  /\ fs' = IF checkpoint_path \in DOMAIN fs THEN fs
                           ELSE (checkpoint_path :> checkpoint) @@ fs
                  /\ loc' = [loc EXCEPT ![t].checkpoint = checkpoint,
                                        ![t].checkpoint_path = checkpoint_path]
    /\ pc' = [pc EXCEPT ![t] = "cache_wait"]
    /\ UNCHANGED <<loopVars, INFERENCE_LOCK, cache_lock, cacheVars, root, runs, links,
                   hwVars, next_run, gw, nm>>

\* PredictorCache.get: with self._lock
CacheAcquire(t) ==
    /\ pc[t] = "cache_wait"
    /\ cache_lock = None
    /\ cache_lock' = t
    /\ pc' = [pc EXCEPT ![t] = "cache"]
    /\ UNCHANGED <<loopVars, INFERENCE_LOCK, cacheVars, root, runs, diskVars, hwVars, loc,
                   next_run, gw, nm>>

\* A get that returns without releasing self._lock.
CacheGetKeepLock(t) ==
    /\ pc[t] = "cache"
    /\ \E allow_unsafe \in BOOLEAN, rest_ok \in BOOLEAN :
          LET key == CacheKey(loc[t].checkpoint_path, loc[t].device)
              res == get(loc[t].checkpoint_path, loc[t].device, allow_unsafe, rest_ok)
              count == IF key \in DOMAIN loads THEN loads[key] ELSE 0
          IN /\ IF res.stored
                THEN /\ models' = (key :> next_predictor + 1) @@ models
                     /\ unsafe' = (key :> res.used_unsafe) @@ unsafe
                     /\ loads' = (key :> count + 1) @@ loads
                     /\ next_predictor' = next_predictor + 1
                ELSE UNCHANGED cacheVars
             /\ loc' = [loc EXCEPT
                   ![t].allow_unsafe = allow_unsafe, ![t].got = res,
                   ![t].predictor = IF res.stored THEN next_predictor + 1
                                    ELSE IF res.status = 200 THEN models[key] ELSE 0]
    /\ pc' = [pc EXCEPT ![t] = "got"]
    /\ UNCHANGED <<loopVars, INFERENCE_LOCK, cache_lock, root, runs, diskVars, hwVars,
                   next_run, gw, nm>>

\* PredictorCache.get, lines 54-91: the lookup or the load, the stored entry,
\* and the release of the cache lock on return or exception.
CacheGet(t) ==
    /\ pc[t] = "cache"
    /\ \E allow_unsafe \in BOOLEAN, rest_ok \in BOOLEAN :
          LET key == CacheKey(loc[t].checkpoint_path, loc[t].device)
              res == get(loc[t].checkpoint_path, loc[t].device, allow_unsafe, rest_ok)
              count == IF key \in DOMAIN loads THEN loads[key] ELSE 0
          IN /\ IF res.stored
                THEN /\ models' = (key :> next_predictor + 1) @@ models
                     /\ unsafe' = (key :> res.used_unsafe) @@ unsafe
                     /\ loads' = (key :> count + 1) @@ loads
                     /\ next_predictor' = next_predictor + 1
                ELSE UNCHANGED cacheVars
             /\ loc' = [loc EXCEPT
                   ![t].allow_unsafe = allow_unsafe, ![t].got = res,
                   ![t].predictor = IF res.stored THEN next_predictor + 1
                                    ELSE IF res.status = 200 THEN models[key] ELSE 0]
    /\ cache_lock' = None
    /\ pc' = [pc EXCEPT ![t] = "got"]
    /\ UNCHANGED <<loopVars, INFERENCE_LOCK, root, runs, diskVars, hwVars, next_run, gw, nm>>

\* A process_inference that logs the ValueError of get and goes on.
AfterGetSwallow(t) ==
    /\ pc[t] = "got"
    /\ loc' = [loc EXCEPT ![t].used_unsafe = loc[t].got.used_unsafe,
                          ![t].detail = loc[t].got.detail,
                          ![t].got = NoGet, ![t].allow_unsafe = FALSE]
    /\ pc' = [pc EXCEPT ![t] = "images"]
    /\ UNCHANGED <<loopVars, INFERENCE_LOCK, cache_lock, cacheVars, root, runs, diskVars,
                   hwVars, next_run, gw, nm>>

\* process_inference, lines 322-334: the ValueError of get becomes a 400 (any
\* other exception is a 500); else the loop over the uploads starts.
AfterGet(t) ==
    /\ pc[t] = "got"
    /\ IF loc[t].got.status # 200
       THEN /\ loc' = [loc EXCEPT ![t].status = loc[t].got.status,
                                  ![t].detail = loc[t].got.detail,
                                  ![t].got = NoGet, ![t].allow_unsafe = FALSE]
            /\ pc' = [pc EXCEPT ![t] = "exit"]
       ELSE /\ loc' = [loc EXCEPT ![t].used_unsafe = loc[t].got.used_unsafe,
                                  ![t].got = NoGet, ![t].allow_unsafe = FALSE]
            /\ pc' = [pc EXCEPT ![t] = "images"]
    /\ UNCHANGED <<loopVars, INFERENCE_LOCK, cache_lock, cacheVars, root, runs, diskVars,
                   hwVars, next_run, gw, nm>>

\* A loop that records the failure of a pass and goes on with the next upload.
ProcessImageSkip(t) ==
    /\ pc[t] = "images"
    /\ \E ok \in BOOLEAN, more \in BOOLEAN :
          /\ loc' = [loc EXCEPT ![t].index = @ + 1,
                                ![t].detail = IF ok THEN @ ELSE "ImageFailed"]
          /\ pc' = [pc EXCEPT ![t] = IF more /\ loc[t].index + 1 < MaxImages
                                     THEN "images" ELSE "manifest"]
    /\ UNCHANGED <<loopVars, INFERENCE_LOCK, cache_lock, cacheVars, root, runs, diskVars,
                   hwVars, next_run, gw, nm>>

\* process_inference, lines 334-366: one pass of the loop over the uploads (at
\* least one, at most MaxImages; the loop learns at the end of a pass whether
\* another upload follows). Any exception of the pass ends the request. The
\* artifacts of a pass are modelled in SpecNames.
ProcessImage(t) ==
    /\ pc[t] = "images"
    /\ \E ok \in BOOLEAN, more \in BOOLEAN :
          IF ~ok
          THEN /\ loc' = [loc EXCEPT ![t].status = 500, ![t].detail = "ImageFailed"]
               /\ pc' = [pc EXCEPT ![t] = "exit"]
          ELSE /\ loc' = [loc EXCEPT ![t].index = @ + 1]
               /\ pc' = [pc EXCEPT ![t] = IF more /\ loc[t].index + 1 < MaxImages
                                          THEN "images" ELSE "manifest"]
    /\ UNCHANGED <<loopVars, INFERENCE_LOCK, cache_lock, cacheVars, root, runs, diskVars,
                   hwVars, next_run, gw, nm>>

\* process_inference, lines 368-378
WriteManifest(t) ==
    /\ pc[t] = "manifest"
    /\ fs' = (loc[t].current_root \o <<loc[t].run_id, "manifest.json">> :> "manifest")
             @@ fs
    /\ pc' = [pc EXCEPT ![t] = "bundle"]
    /\ UNCHANGED <<loopVars, INFERENCE_LOCK, cache_lock, cacheVars, root, runs, dirs, links,
                   hwVars, loc, next_run, gw, nm>>

\* process_inference, lines 379-390
CreateBundle(t) ==
    /\ pc[t] = "bundle"
    /\ fs' = (loc[t].current_root \o <<loc[t].run_id, "bundle.zip">> :> "bundle") @@ fs
    /\ pc' = [pc EXCEPT ![t] = "bind"]
    /\ UNCHANGED <<loopVars, INFERENCE_LOCK, cache_lock, cacheVars, root, runs, dirs, links,
                   hwVars, loc, next_run, gw, nm>>

\* Binding to the root current when the run ends.
BoundRootLatest(t) == get_root

\* The root run() binds the run to: the one it read before the run.
BoundRoot(t) == loc[t].current_root

\* run: output_state.set_run_root(result["run_id"], current_root), the whole
\* of its `with self._lock` block in one step.
Bind(t) ==
    /\ pc[t] = "bind"
    /\ output_lock = None
    /\ set_run_root(loc[t].run_id, BoundRoot(t))
    /\ loc' = [loc EXCEPT ![t].status = 200]
    /\ pc' = [pc EXCEPT ![t] = "exit"]
    /\ UNCHANGED <<loopVars, INFERENCE_LOCK, cache_lock, cacheVars, diskVars, hwVars,
                   next_run, gw, nm>>

\* A run() that releases INFERENCE_LOCK on return only: an exception leaves
\* the lock with the thread that ended.
ReleaseOnReturn(t) ==
    /\ pc[t] = "exit"
    /\ INFERENCE_LOCK' = IF loc[t].status = 200 THEN None ELSE INFERENCE_LOCK
    /\ loc' = [loc EXCEPT ![t] = InitLoc]
    /\ pc' = [pc EXCEPT ![t] = "idle"]
    /\ UNCHANGED <<loopVars, cache_lock, cacheVars, root, runs, diskVars, hwVars,
                   next_run, gw, nm>>

\* run: leaving `with INFERENCE_LOCK`, by return or by exception.
Release(t) ==
    /\ pc[t] = "exit"
    /\ INFERENCE_LOCK' = None
    /\ loc' = [loc EXCEPT ![t] = InitLoc]
    /\ pc' = [pc EXCEPT ![t] = "idle"]
    /\ UNCHANGED <<loopVars, cache_lock, cacheVars, root, runs, diskVars, hwVars, next_run,
                   gw, nm>>

\* select_output_root: the folder picker returns a folder or nothing.
SelectOutputRoot ==
    /\ output_lock = None
    /\ \E selected \in Roots \cup {NoPath} :
          IF selected = NoPath THEN UNCHANGED <<root, runs>>
          ELSE set_root(selected)
    /\ UNCHANGED <<loopVars, INFERENCE_LOCK, cache_lock, cacheVars, diskVars, hwVars, pc, loc,
                   next_run, gw, nm>>

\* ------------------------------------------------------ the server: Spec
\* The event loop between two handlers.
EvIdle == [handler |-> None, call |-> None, arg |-> None]

GwIdle == [r |-> NoPath, candidate |-> NoPath, status |-> 0, path |-> NoPath]
NmIdle == [phase |-> "idle"]

Init ==
    /\ INFERENCE_LOCK = None
    /\ cache_lock = None
    /\ models = <<>>
    /\ unsafe = <<>>
    /\ loads = <<>>
    /\ next_predictor = 0
    /\ root = R1
    /\ runs = <<>>
    /\ dirs = {}
    /\ fs = <<>>
    /\ links = <<>>
    /\ \E hw \in Hardware : cuda = hw[1] /\ mps = hw[2]
    /\ pc = [t \in Threads |-> "idle"]
    /\ loc = [t \in Threads |-> InitLoc]
    /\ next_run = 0
    /\ output_lock = None
    /\ ev = EvIdle
    /\ gw = GwIdle
    /\ nm = NmIdle

Next ==
    \/ \E t \in Threads :
          \/ Submit(t)
          \/ Acquire(t)
          \/ GetRoot(t)
          \/ Validate(t)
          \/ MakeRunDir(t)
          \/ StoreCheckpoint(t)
          \/ CacheAcquire(t)
          \/ CacheGet(t)
          \/ AfterGet(t)
          \/ ProcessImage(t)
          \/ WriteManifest(t)
          \/ CreateBundle(t)
          \/ Bind(t)
          \/ Release(t)
    \/ SelectOutputRoot

Spec == Init /\ [][Next]_vars

\* ------------------------------------------- the path gateway: SpecPath
\* Every variable of the server at rest.
Quiet ==
    /\ INFERENCE_LOCK = None
    /\ cache_lock = None
    /\ models = <<>>
    /\ unsafe = <<>>
    /\ loads = <<>>
    /\ next_predictor = 0
    /\ root = R1
    /\ runs = <<>>
    /\ dirs = {}
    /\ fs = <<>>
    /\ pc = [t \in Threads |-> "idle"]
    /\ loc = [t \in Threads |-> InitLoc]
    /\ next_run = 0
    /\ output_lock = None
    /\ ev = EvIdle

serverVars ==
    <<INFERENCE_LOCK, cache_lock, cacheVars, root, runs, dirs, fs, pc, loc, next_run,
      loopVars>>

\* Names of path components; ".." is the parent directory.
GwComponents == {"out", "run", "x", "ln", ".."}

\* The roots ensure_within is called with, and the candidate paths.
GwRoots == {<<"out">>, <<"out", "run">>, <<"ln">>}
Candidates == UNION {[1..n -> GwComponents] : n \in 1..MaxPathLen}

\* The symbolic links on disk: none; /ln -> /out; /out/ln -> /x (a link inside
\* a root that leads out of it); /x -> /out/run (a link outside that leads in).
LinkTables ==
    {<<>>, <<"ln">> :> <<"out">>, <<"out", "ln">> :> <<"x">>,
     <<"x">> :> <<"out", "run">>}

InitPath ==
    /\ Quiet
    /\ cuda = FALSE
    /\ mps = FALSE
    /\ links \in LinkTables
    /\ \E r \in GwRoots, candidate \in Candidates :
          gw = [r |-> r, candidate |-> candidate, status |-> 0, path |-> NoPath]
    /\ nm = NmIdle

\* The call ensure_within(gw.r, gw.candidate).
EnsureWithin ==
    /\ gw.status = 0
    /\ gw' = [gw EXCEPT !.status = ensure_within(gw.r, gw.candidate).status,
                        !.path = ensure_within(gw.r, gw.candidate).path]
    /\ UNCHANGED <<serverVars, links, hwVars, nm>>

NextPath == EnsureWithin

SpecPath == InitPath /\ [][NextPath]_vars

\* ------------------------------ the server over a used disk: SpecStore
\* What an earlier process left under /out1/_checkpoints: nothing, the stored
\* weights wSafe, or a file under the name of wSafe's digest with other bytes.
StoredName == R1 \o <<"_checkpoints", "5afe.pt">>
DiskStates == {<<>>, StoredName :> "wSafe", StoredName :> "wPickle"}

\* The server starts on such a disk.
InitStore ==
    /\ INFERENCE_LOCK = None
    /\ cache_lock = None
    /\ models = <<>>
    /\ unsafe = <<>>
    /\ loads = <<>>
    /\ next_predictor = 0
    /\ root = R1
    /\ runs = <<>>
    /\ fs \in DiskStates
    /\ dirs = {Parent(p) : p \in DOMAIN fs}
    /\ links = <<>>
    /\ \E hw \in Hardware : cuda = hw[1] /\ mps = hw[2]
    /\ pc = [t \in Threads |-> "idle"]
    /\ loc = [t \in Threads |-> InitLoc]
    /\ next_run = 0
    /\ output_lock = None
    /\ ev = EvIdle
    /\ gw = GwIdle
    /\ nm = NmIdle

\* One request at a time.
NextStore ==
    \/ \E t \in {"t1"} :
          \/ Submit(t)
          \/ Acquire(t)
          \/ GetRoot(t)
          \/ Validate(t)
          \/ MakeRunDir(t)
          \/ StoreCheckpoint(t)
          \/ CacheAcquire(t)
          \/ CacheGet(t)
          \/ AfterGet(t)
          \/ ProcessImage(t)
          \/ WriteManifest(t)
          \/ CreateBundle(t)
          \/ Bind(t)
          \/ Release(t)
    \/ SelectOutputRoot

SpecStore == InitStore /\ [][NextStore]_vars

\* --------------------------- downloads over symbolic links: SpecDownload
\* Links someone put under /out1: ln leads out of the root, to /out2; in is
\* another name for /out1/_checkpoints.
DlLinks ==
    (<<"out1", "ln">> :> <<"out2">>) @@ (<<"out1", "in">> :> <<"out1", "_checkpoints">>)

\* The server starts on a machine without accelerator, with these links.
InitDownload ==
    /\ Quiet
    /\ cuda = FALSE
    /\ mps = FALSE
    /\ links = DlLinks
    /\ gw = GwIdle
    /\ nm = NmIdle

SpecDownload == InitDownload /\ [][NextStore]_vars

\* --------------------------- the locks, step by step: SpecRegistry
\* OutputState's methods with their `with self._lock` blocks in two steps, the
\* entry and the body with the exit, for the worker threads and for the
\* handlers the event loop runs between its awaits.
Loop == "loop"

\* run: output_state.get_root() enters `with self._lock`.
GetRootEnter(t) ==
    /\ pc[t] = "locked"
    /\ output_lock = None
    /\ output_lock' = t
    /\ pc' = [pc EXCEPT ![t] = "root"]
    /\ UNCHANGED <<INFERENCE_LOCK, cache_lock, cacheVars, root, runs, diskVars,
                   hwVars, loc, next_run, ev, gw, nm>>

\* get_root: return self._root, and the lock is released.
GetRootLeave(t) ==
    /\ pc[t] = "root"
    /\ output_lock = t
    /\ loc' = [loc EXCEPT ![t].current_root = get_root]
    /\ output_lock' = None
    /\ pc' = [pc EXCEPT ![t] = "validate"]
    /\ UNCHANGED <<INFERENCE_LOCK, cache_lock, cacheVars, root, runs, diskVars,
                   hwVars, next_run, ev, gw, nm>>

\* run: output_state.set_run_root(...) enters `with self._lock`.
SetRunRootEnter(t) ==
    /\ pc[t] = "bind"
    /\ output_lock = None
    /\ output_lock' = t
    /\ pc' = [pc EXCEPT ![t] = "binding"]
    /\ UNCHANGED <<INFERENCE_LOCK, cache_lock, cacheVars, root, runs, diskVars,
                   hwVars, loc, next_run, ev, gw, nm>>

\* set_run_root: self._runs[run_id] = root, and the lock is released.
SetRunRootLeave(t) ==
    /\ pc[t] = "binding"
    /\ output_lock = t
    /\ set_run_root(loc[t].run_id, BoundRoot(t))
    /\ output_lock' = None
    /\ loc' = [loc EXCEPT ![t].status = 200]
    /\ pc' = [pc EXCEPT ![t] = "exit"]
    /\ UNCHANGED <<INFERENCE_LOCK, cache_lock, cacheVars, diskVars, hwVars,
                   next_run, ev, gw, nm>>

\* The first OutputState call of each handler: download_file asks for the root
\* of a run, the three output-root handlers for the current root.
FirstCall(handler) ==
    IF handler = "download_file" THEN "get_run_root" ELSE "get_root"

\* The handlers that call OutputState, and those of them that only read it.
Handlers ==
    {"download_file", "get_output_root", "select_output_root", "open_output_root"}
ReadHandlers == Handlers \ {"select_output_root"}

\* A request reaches the event loop, which starts its handler: the handler
\* stands before its first OutputState call. A download asks for the first
\* run, which may not exist yet.
LoopRequest(handlers) ==
    /\ ev = EvIdle
    /\ \E handler \in handlers :
          ev' = [handler |-> handler, call |-> FirstCall(handler),
                 arg |-> IF handler = "download_file" THEN RunId(1) ELSE None]
    /\ UNCHANGED <<INFERENCE_LOCK, cache_lock, cacheVars, root, runs, diskVars,
                   hwVars, pc, loc, next_run, output_lock, gw, nm>>

\* A handler that takes the compute lock's turn: it goes on only when no
\* request computes.
LoopEnterAfterCompute ==
    /\ ev.call # None
    /\ INFERENCE_LOCK = None
    /\ output_lock = None
    /\ output_lock' = Loop
    /\ UNCHANGED <<INFERENCE_LOCK, cache_lock, cacheVars, root, runs, diskVars,
                   hwVars, pc, loc, next_run, ev, gw, nm>>

\* The handler's OutputState call enters `with self._lock`.
LoopEnter ==
    /\ ev.call # None
    /\ output_lock = None
    /\ output_lock' = Loop
    /\ UNCHANGED <<INFERENCE_LOCK, cache_lock, cacheVars, root, runs, diskVars,
                   hwVars, pc, loc, next_run, ev, gw, nm>>

\* What the handler does after a call returned: select_output_root, after its
\* first get_root, shows the picker and then reads the root again (nothing
\* selected) or sets the selected root; open_output_root reads the root again
\* unless opening the folder failed; every other call is the handler's last.
AfterCall ==
    IF ev.handler = "select_output_root" /\ ev.call = "get_root" /\ ev.arg = None
    THEN {[handler |-> ev.handler, call |-> "get_root", arg |-> "again"]}
         \cup {[handler |-> ev.handler, call |-> "set_root", arg |-> selected] :
                  selected \in Roots}
    ELSE IF ev.handler = "open_output_root" /\ ev.arg = None
    THEN {[handler |-> ev.handler, call |-> "get_root", arg |-> "again"], EvIdle}
    ELSE {EvIdle}

\* The body of the call and the release of the lock; the handler goes on to
\* its next call or returns its response (for download_file: ensure_within,
\* exists and FileResponse, none of which takes a lock).
LoopLeave ==
    /\ output_lock = Loop
    /\ IF ev.call = "set_root" THEN set_root(ev.arg) ELSE UNCHANGED <<root, runs>>
    /\ output_lock' = None
    /\ ev' \in AfterCall
    /\ UNCHANGED <<INFERENCE_LOCK, cache_lock, cacheVars, diskVars, hwVars, pc, loc,
                   next_run, gw, nm>>

\* The server on a machine without accelerator.
InitLocks ==
    /\ Quiet
    /\ cuda = FALSE
    /\ mps = FALSE
    /\ links = <<>>
    /\ gw = GwIdle
    /\ nm = NmIdle

\* The steps of worker thread t once its request is queued.
Worker(t) ==
    \/ Acquire(t)
    \/ GetRootEnter(t)
    \/ GetRootLeave(t)
    \/ Validate(t)
    \/ MakeRunDir(t)
    \/ StoreCheckpoint(t)
    \/ CacheAcquire(t)
    \/ CacheGet(t)
    \/ AfterGet(t)
    \/ ProcessImage(t)
    \/ WriteManifest(t)
    \/ CreateBundle(t)
    \/ SetRunRootEnter(t)
    \/ SetRunRootLeave(t)
    \/ Release(t)

\* One request at a time, and every handler of the event loop.
NextRegistry ==
    \/ \E t \in {"t1"} : Submit(t) \/ Worker(t)
    \/ LoopRequest(Handlers)
    \/ LoopEnter
    \/ LoopLeave

SpecRegistry == InitLocks /\ [][NextRegistry]_vars

\* ------------------------------ concurrent requests, fairly: SpecLocks
\* Two requests at a time while the event loop serves the handlers that read
\* OutputState; the output root stays where it is.
NextLocks ==
    \/ \E t \in Threads : Submit(t) \/ Worker(t)
    \/ LoopRequest(ReadHandlers)
    \/ LoopEnter
    \/ LoopLeave

\* Fair scheduling: a thread that can go on does, and a thread that waits for
\* a lock gets it if the lock is free again and again; the event loop ends
\* the OutputState call it is in. Requests may stop coming.
Fairness ==
    /\ \A t \in Threads :
          /\ WF_vars(Worker(t))
          /\ SF_vars(Acquire(t))
          /\ SF_vars(GetRootEnter(t))
          /\ SF_vars(SetRunRootEnter(t))
    /\ WF_vars(LoopLeave)

SpecLocks == InitLocks /\ [][NextLocks]_vars /\ Fairness

\* --------------------------------------- one run's artifacts: SpecNames
\* Characters of file names: those str.isalnum accepts (lower-case letters and
\* digits here), and the rest.
Alnum ==
    {"a", "b", "c", "d", "e", "f", "g", "h", "i", "j", "k", "l", "m", "n", "o", "p",
     "q", "r", "s", "t", "u", "v", "w", "x", "y", "z",
     "0", "1", "2", "3", "4", "5", "6", "7", "8", "9"}
IsKept(ch) == ch \in Alnum \cup {".", "_", "-"}

\* Path(name).name: the last component, "." components and empty ones dropped.
RECURSIVE Parts(_, _)
Parts(name, cur) ==
    LET done == IF cur \in {<<>>, <<".">>} THEN <<>> ELSE <<cur>>
    IN IF name = <<>> THEN done
       ELSE IF Head(name) = "/" THEN done \o Parts(Tail(name), <<>>)
       ELSE Parts(Tail(name), Append(cur, Head(name)))

PathName(name) ==
    LET parts == Parts(name, <<>>)
    IN IF parts = <<>> THEN <<>> ELSE parts[Len(parts)]

\* Path(name).suffix: from the last dot, unless that dot is the first or the last
\* character of the name.
Suffix(name) ==
    LET n == PathName(name)
        dots == {i \in 1..Len(n) : n[i] = "."}
        last == IF dots = {} THEN 0 ELSE CHOOSE i \in dots : \A j \in dots : j <= i
    IN IF 1 < last /\ last < Len(n) THEN SubSeq(n, last, Len(n)) ELSE <<>>

\* Path(name).stem
Stem(name) ==
    LET n == PathName(name)
    IN SubSeq(n, 1, Len(n) - Len(Suffix(name)))

Upload == <<"u", "p", "l", "o", "a", "d">>

\* safe_filename
safe_filename(name) ==
    LET base == [i \in DOMAIN PathName(name) |->
                    IF PathName(name)[i] = " " THEN "_" ELSE PathName(name)[i]]
        filtered == SelectSeq(base, IsKept)
    IN IF filtered = <<>> THEN Upload ELSE filtered

\* str(counter) and f"{index:02d}"
RECURSIVE Dec(_)
Dec(k) ==
    LET digit == <<"0", "1", "2", "3", "4", "5", "6", "7", "8", "9">>
    IN IF k < 10 THEN <<digit[k + 1]>> ELSE Dec(k \div 10) \o <<digit[(k % 10) + 1]>>

TwoDigits(k) == IF k < 10 THEN <<"0">> \o Dec(k) ELSE Dec(k)

\* unique_filename: the name it returns (the caller's set then holds it too).
RECURSIVE Numbered(_, _, _, _)
Numbered(base, suffix, used, counter) ==
    LET candidate == base \o <<"-">> \o Dec(counter) \o suffix
    IN IF candidate \in used THEN Numbered(base, suffix, used, counter + 1)
       ELSE candidate

unique_filename(name, used) ==
    IF Stem(name) \o Suffix(name) \in used
    THEN Numbered(Stem(name), Suffix(name), used, 1)
    ELSE Stem(name) \o Suffix(name)

\* The file names of one pass of the loop, lines 335-364.
Ply == <<".", "p", "l", "y">>
Preview == <<".", "p", "r", "e", "v", "i", "e", "w", ".", "j", "p", "g">>
Mp4 == <<".", "m", "p", "4">>
DepthMp4 == <<".", "d", "e", "p", "t", "h", ".", "m", "p", "4">>

\* A stored input named by the sanitized name alone.
input_nameNoPrefix(index, safe_name) == safe_name

input_name(index, safe_name) == TwoDigits(index) \o <<"_">> \o safe_name
ply_name(safe_name) == Stem(safe_name) \o Ply
preview_name(safe_name) == Stem(safe_name) \o Preview
video_name(safe_name) == Stem(safe_name) \o Mp4
depth_name(safe_name) == Stem(video_name(safe_name)) \o DepthMp4

\* Writing files in order: who wrote each file last, and the files one upload
\* wrote over a file of another upload.
RECURSIVE WriteAll(_, _, _, _)
WriteAll(written, clobbered, files, index) ==
    IF files = <<>> THEN [written |-> written, clobbered |-> clobbered]
    ELSE LET f == Head(files)
             hit == f \in DOMAIN written /\ written[f] # index
         IN WriteAll((f :> index) @@ written,
                     IF hit THEN clobbered \cup {f} ELSE clobbered,
                     Tail(files), index)

\* A bundle that also archives itself.
create_bundle_zipAll(files, bundle_path) == files

\* create_bundle_zip: the archive members, as paths relative to the run
\* directory. `files` are the regular files under the run directory while rglob
\* runs; ZipFile has created the bundle file by then.
create_bundle_zip(files, bundle_path) == {path \in files : path # bundle_path}

\* The upload names of a batch.
UploadNames ==
    {<<"a", ".", "p", "n", "g">>, <<"a", ".", "j", "p", "g">>,
     <<"b", ".", "p", "n", "g">>, <<"a", "-", "1", ".", "p", "n", "g">>,
     <<"x", "/", "a", ".", "p", "n", "g">>, <<"a", " ", "b">>, <<".", ".">>,
     <<"$">>, <<"$", ".">>, <<"a", ".", "p", "l", "y">>, <<"0", "2", "_", "a">>}

Batches == UNION {[1..k -> UploadNames] : k \in 0..MaxUploads}

InitNames ==
    /\ Quiet
    /\ \E hw \in Hardware : cuda = hw[1] /\ mps = hw[2]
    /\ links = <<>>
    /\ gw = GwIdle
    /\ \E uploads \in Batches :
          nm = [phase |-> "validate", uploads |-> uploads, device |-> None,
                render |-> FALSE, render_enabled |-> FALSE, warnings |-> <<>>,
                index |-> 0, used_names |-> {}, outputs |-> <<>>,
                written |-> <<>>, clobbered |-> {}, bundle |-> {}, status |-> 0,
                detail |-> None]

\* A render decision that looks at the request only.
RenderEnabledAny(render, device) == render

\* process_inference, line 309
RenderEnabled(render, device) == render /\ device = "cuda" /\ cuda

\* process_inference, lines 301-312: the checks and the render decision.
NmValidate ==
    /\ nm.phase = "validate"
    /\ \E requested \in RequestedDevices, render \in BOOLEAN :
          LET dev == resolve_device(requested)
              render_enabled == RenderEnabled(render, dev.device)
          IN IF nm.uploads = <<>>
             THEN nm' = [nm EXCEPT !.phase = "failed", !.status = 400,
                                   !.detail = "NoInput"]
             ELSE IF dev.status # 200
             THEN nm' = [nm EXCEPT !.phase = "failed", !.status = 400,
                                   !.detail = dev.detail]
             ELSE nm' = [nm EXCEPT
                     !.phase = "get", !.device = dev.device, !.render = render,
                     !.render_enabled = render_enabled,
                     !.warnings = IF render /\ ~render_enabled
                                  THEN <<"RenderSkipped">> ELSE <<>>]
    /\ UNCHANGED <<serverVars, links, hwVars, gw>>

\* process_inference, lines 322-329: what PREDICTOR_CACHE.get gives this run. A
\* ValueError is a 400; a predictor loaded unsafely adds a warning.
NmGet ==
    /\ nm.phase = "get"
    /\ \E outcome \in {"rejected", "safe", "unsafe"} :
          IF outcome = "rejected"
          THEN nm' = [nm EXCEPT !.phase = "failed", !.status = 400,
                                !.detail = "EngineRejected"]
          ELSE nm' = [nm EXCEPT
                  !.phase = "loop",
                  !.warnings = IF outcome = "unsafe"
                               THEN Append(@, "UnsafeCheckpoint") ELSE @]
    /\ UNCHANGED <<serverVars, links, hwVars, gw>>

\* process_inference, lines 334-366: one pass of the loop. depth is whether the
\* renderer left a depth video.
NmPass ==
    /\ nm.phase = "loop"
    /\ nm.index < Len(nm.uploads)
    /\ \E depth \in (IF nm.render_enabled THEN BOOLEAN ELSE {FALSE}) :
          LET index == nm.index + 1
              safe_name == unique_filename(safe_filename(nm.uploads[index]),
                                           nm.used_names)
              files == <<input_name(index, safe_name), ply_name(safe_name),
                         preview_name(safe_name)>>
                       \o (IF nm.render_enabled THEN <<video_name(safe_name)>>
                           ELSE <<>>)
                       \o (IF depth THEN <<depth_name(safe_name)>> ELSE <<>>)
              w == WriteAll(nm.written, nm.clobbered, files, index)
              output == [name |-> safe_name, ply |-> ply_name(safe_name),
                         preview |-> preview_name(safe_name),
                         video |-> IF nm.render_enabled THEN video_name(safe_name)
                                   ELSE <<>>,
                         depth_video |-> IF depth THEN depth_name(safe_name)
                                         ELSE <<>>]
          IN nm' = [nm EXCEPT !.index = index,
                              !.used_names = @ \cup {safe_name},
                              !.outputs = Append(@, output),
                              !.written = w.written, !.clobbered = w.clobbered]
    /\ UNCHANGED <<serverVars, links, hwVars, gw>>

\* process_inference, lines 368-390: the manifest, the bundle, the result.
NmFinish ==
    /\ nm.phase = "loop"
    /\ nm.index = Len(nm.uploads)
    /\ LET w == WriteAll(nm.written, nm.clobbered,
                         <<<<"manifest.json">>, <<"bundle.zip">>>>, 0)
       IN nm' = [nm EXCEPT !.phase = "done", !.status = 200,
                           !.written = w.written, !.clobbered = w.clobbered,
                           !.bundle = create_bundle_zip(DOMAIN w.written,
                                                        <<"bundle.zip">>)]
    /\ UNCHANGED <<serverVars, links, hwVars, gw>>

NextNames == NmValidate \/ NmGet \/ NmPass \/ NmFinish

SpecNames == InitNames /\ [][NextNames]_vars

\* ================================================================== claims
\* The key of the get call thread t makes.
KeyOf(t) == CacheKey(loc[t].checkpoint_path, loc[t].device)

\* The positions inside `with INFERENCE_LOCK`.
Section ==
    {"locked", "validate", "mkdir", "store", "cache_wait", "cache", "got",
     "images", "manifest", "bundle", "bind", "exit"}

\* C1: at most one request is inside the INFERENCE_LOCK section (from reading
\* the output root to binding the run) at any moment, and it holds the lock.
C1_MutualExclusion ==
    /\ Cardinality({t \in Threads : pc[t] \in Section}) <= 1
    /\ \A t \in Threads : pc[t] \in Section => INFERENCE_LOCK = t

\* C1 witness: one request is in the middle of its section while another waits.
C1_Witness ==
    \E t, u \in Threads : pc[t] = "images" /\ pc[u] = "queued"

\* C2 as stated: at most one load per key, and every call that finds the key
\* cached returns the stored instance.
C2_Original ==
    /\ \A k \in DOMAIN loads : loads[k] <= 1
    /\ \A t \in Threads :
          (pc[t] = "got" /\ ~loc[t].got.stored /\ KeyOf(t) \in DOMAIN models)
             => (loc[t].got.status = 200 /\ loc[t].predictor = models[KeyOf(t)])

\* C2 amended: at most one successful load per key stores an entry; a call on a
\* cached key returns the very instance stored, or is rejected with
\* UnsafeLoadRejected when the entry was loaded unsafely and the call does not
\* allow it; a call that leaves the key uncached has failed and stored nothing.
C2_AtMostOnceLoad ==
    /\ DOMAIN loads = DOMAIN models
    /\ \A k \in DOMAIN loads : loads[k] = 1
    /\ \A k1, k2 \in DOMAIN models : models[k1] = models[k2] => k1 = k2
    /\ \A t \in Threads :
          pc[t] = "got" =>
             IF KeyOf(t) \in DOMAIN models
             THEN \/ /\ loc[t].got.status = 200
                     /\ loc[t].predictor = models[KeyOf(t)]
                  \/ /\ ~loc[t].got.stored
                     /\ loc[t].got.status = 400
                     /\ loc[t].got.detail = "UnsafeLoadRejected"
                     /\ unsafe[KeyOf(t)]
                     /\ ~loc[t].allow_unsafe
             ELSE loc[t].got.status # 200 /\ ~loc[t].got.stored

\* C2 witness: a call reuses the instance an earlier call loaded.
C2_Witness ==
    \E t \in Threads :
       /\ pc[t] = "got" /\ KeyOf(t) \in DOMAIN loads /\ loads[KeyOf(t)] = 1
       /\ loc[t].got.branch = "hit" /\ loc[t].got.status = 200
       /\ KeyOf(t) \in DOMAIN models /\ loc[t].predictor = models[KeyOf(t)]

\* C3: a get on a key whose cached entry was loaded unsafely is rejected with
\* UnsafeLoadRejected when allow_unsafe is false and returns the cached instance
\* with used_unsafe = TRUE when it is true; either way nothing is reloaded.
C3_UnsafeSticky ==
    [][\A t \in Threads :
          (/\ pc[t] = "cache" /\ pc'[t] = "got"
           /\ KeyOf(t) \in DOMAIN models
           /\ KeyOf(t) \in DOMAIN unsafe /\ unsafe[KeyOf(t)])
          => /\ models' = models /\ unsafe' = unsafe /\ loads' = loads
             /\ loc'[t].got.events = <<>>
             /\ IF loc'[t].allow_unsafe
                THEN /\ loc'[t].got.status = 200
                     /\ loc'[t].predictor = models[KeyOf(t)]
                     /\ loc'[t].got.used_unsafe
                ELSE /\ loc'[t].got.status = 400
                     /\ loc'[t].got.detail = "UnsafeLoadRejected"]_vars

\* C3 witness: a later get without allow_unsafe has been rejected on an entry
\* that is cached as loaded unsafely.
C3_Witness ==
    \E t \in Threads :
       /\ pc[t] = "got" /\ ~loc[t].allow_unsafe
       /\ KeyOf(t) \in DOMAIN unsafe /\ unsafe[KeyOf(t)]
       /\ loc[t].got.detail = "UnsafeLoadRejected"

\* C4: a get attempts full deserialization only after its own safe attempt
\* failed and only with allow_unsafe; a get without allow_unsafe attempts none
\* and never returns an entry flagged loaded_unsafely.
C4_UnsafeGated ==
    \A t \in Threads :
       pc[t] = "got" =>
          /\ (\E i \in DOMAIN loc[t].got.events : loc[t].got.events[i] = "unsafe")
                => /\ loc[t].allow_unsafe
                   /\ loc[t].got.events = <<"safe", "unsafe">>
                   /\ loc[t].checkpoint_path \in DOMAIN fs
                   /\ ~SafeLoadOk(fs[loc[t].checkpoint_path])
          /\ ~loc[t].allow_unsafe
                => /\ \A i \in DOMAIN loc[t].got.events : loc[t].got.events[i] # "unsafe"
                   /\ loc[t].got.status = 200
                         => /\ ~loc[t].got.used_unsafe
                            /\ ~unsafe[KeyOf(t)]

\* C4 witness: a get with allow_unsafe has loaded a checkpoint unsafely after
\* its safe attempt failed.
C4_Witness ==
    \E t \in Threads :
       /\ pc[t] = "got" /\ loc[t].allow_unsafe
       /\ loc[t].got.events = <<"safe", "unsafe">> /\ loc[t].got.stored

\* C5: once a run id is bound, get_run_root returns the same root after every
\* step (set_root, set_run_root of other runs, further requests).
C5_BindingImmutable ==
    [][\A id \in DOMAIN runs : get_run_root(id)' = get_run_root(id)]_vars

\* C5 witness: a run is bound to a root that is no longer the global root.
C5_Witness ==
    \E id \in DOMAIN runs : runs[id] # root /\ get_run_root(id) = runs[id]

\* C6: every completed run is bound to the root its directory was created
\* under, the only root holding that directory, and its bundle downloads from
\* there whatever the global root is now.
C6_DownloadStable ==
    /\ \A id \in DOMAIN runs :
          /\ Append(runs[id], id) \in dirs
          /\ \A r \in Roots : Append(r, id) \in dirs => r = runs[id]
          /\ download_file(id, "bundle.zip") =
                [status |-> 200, path |-> runs[id] \o <<id, "bundle.zip">>]
    /\ \A t \in Threads :
          (pc[t] = "exit" /\ loc[t].status = 200)
             => /\ loc[t].run_id \in DOMAIN runs
                /\ runs[loc[t].run_id] = loc[t].current_root

\* C6 witness: the root was changed while a run was in progress and after it:
\* an old run resolves under R1, a newer one under R2, and the run just
\* completed is bound to a root that is not the global root any more.
C6_Witness ==
    /\ \E a, b \in DOMAIN runs :
          /\ runs[a] = R1 /\ runs[b] = R2
          /\ download_file(a, "bundle.zip").path = <<"out1", a, "bundle.zip">>
          /\ download_file(b, "bundle.zip").path = <<"out2", b, "bundle.zip">>
    /\ \E t \in Threads :
          pc[t] = "exit" /\ loc[t].status = 200 /\ loc[t].current_root # root

\* C7 as stated: requests with byte-identical weights (the same digest) and the
\* same device use one identity, so one load serves them all.
C7_ContentAddressed ==
    \A k1, k2 \in DOMAIN loads :
       (/\ k1.ckpt # DefaultId /\ k2.ckpt # DefaultId
        /\ k1.ckpt[Len(k1.ckpt)] = k2.ckpt[Len(k2.ckpt)]
        /\ k1.device = k2.device)
       => k1 = k2

\* C9: a request that fails validation (no images, unrecognized device,
\* unavailable accelerator) ends with a 400 and, from taking the lock to
\* failing, creates no directory, writes no file and leaves the cache and the
\* registry as they were; no request passes validation with a device that is
\* unrecognized or unavailable.
C9_ValidationNoSideEffects ==
    [][\A t \in Threads :
          (pc[t] \in {"queued", "locked", "validate"} /\ pc'[t] # pc[t])
          => /\ UNCHANGED <<dirs, fs, models, unsafe, loads, runs, next_run>>
             /\ pc'[t] = "exit"
                   => /\ loc'[t].status = 400
                      /\ loc'[t].run_id = None
                      /\ \/ loc'[t].input.empty /\ loc'[t].detail = "NoInput"
                         \/ /\ loc'[t].input.requested
                                  \notin {"default", "cpu", "cuda", "mps"}
                            /\ loc'[t].detail = "InvalidDevice"
                         \/ /\ loc'[t].input.requested = "cuda" /\ ~cuda
                            /\ loc'[t].detail = "DeviceUnavailable"
                         \/ /\ loc'[t].input.requested = "mps" /\ ~mps
                            /\ loc'[t].detail = "DeviceUnavailable"
             /\ pc'[t] = "mkdir"
                   => /\ loc'[t].device \in {"cpu", "cuda", "mps"}
                      /\ loc'[t].device = "cuda" => cuda
                      /\ loc'[t].device = "mps" => mps]_vars

\* C9 witness: a request for an unavailable accelerator has failed validation
\* on a server that already holds a run directory and a cached predictor.
C9_Witness ==
    \E t \in Threads :
       /\ pc[t] = "exit" /\ loc[t].status = 400
       /\ loc[t].detail = "DeviceUnavailable"
       /\ dirs # {} /\ DOMAIN models # {}

\* The canonical form of a path, by rewriting: the leftmost ".", ".." or
\* symbolic link is resolved until none is left.
RECURSIVE Canonical(_)
Canonical(p) ==
    LET redexes == {i \in 1..Len(p) : \/ p[i] \in {".", ".."}
                                       \/ SubSeq(p, 1, i) \in DOMAIN links}
    IN IF redexes = {} THEN p
       ELSE LET i == CHOOSE i \in redexes : \A j \in redexes : i <= j
                rest == SubSeq(p, i + 1, Len(p))
            IN IF p[i] = "."
               THEN Canonical(SubSeq(p, 1, i - 1) \o rest)
               ELSE IF p[i] = ".."
               THEN Canonical((IF i <= 2 THEN <<>> ELSE SubSeq(p, 1, i - 2)) \o rest)
               ELSE Canonical(links[SubSeq(p, 1, i)] \o rest)

\* p is r or has r among its ancestors.
RECURSIVE Descends(_, _)
Descends(p, r) == p = r \/ (p # <<>> /\ Descends(Parent(p), r))

\* The candidate is r/"../x".
Escape(x) == gw.candidate = gw.r \o <<"..", x>>

C10_NonColliding ==
    nm.phase \in {"loop", "done"} =>
       /\ Len(nm.outputs) = nm.index
       /\ \A i, j \in DOMAIN nm.outputs :
             i # j => /\ nm.outputs[i].name # nm.outputs[j].name
                      /\ nm.outputs[i].ply # nm.outputs[j].ply
                      /\ nm.outputs[i].preview # nm.outputs[j].preview
       /\ nm.clobbered = {}

\* The files the output entries of a run name, with the stored inputs.
ListedFiles ==
    UNION {{input_name(i, nm.outputs[i].name), nm.outputs[i].ply,
            nm.outputs[i].preview, nm.outputs[i].video,
            nm.outputs[i].depth_video} : i \in DOMAIN nm.outputs} \ {<<>>}

\* C11: after a successful run the bundle holds exactly the regular files of
\* the run directory other than bundle.zip itself, each under its relative
\* path: every stored input, geometry, preview and video file and manifest.json,
\* which is therefore written before the bundle is built.
C11_BundleContents ==
    nm.phase = "done" =>
       /\ nm.bundle = DOMAIN nm.written \ {<<"bundle.zip">>}
       /\ <<"bundle.zip">> \in DOMAIN nm.written
       /\ <<"bundle.zip">> \notin nm.bundle
       /\ <<"manifest.json">> \in nm.bundle
       /\ ListedFiles \subseteq nm.bundle
       /\ nm.bundle \subseteq ListedFiles \cup {<<"manifest.json">>}

\* C11 witness: the bundle of a rendered run of two uploads holds a depth video
\* and the manifest.
C11_Witness ==
    /\ nm.phase = "done" /\ Len(nm.outputs) = 2
    /\ \E i \in DOMAIN nm.outputs :
          nm.outputs[i].depth_video # <<>> /\ nm.outputs[i].depth_video \in nm.bundle
    /\ <<"manifest.json">> \in nm.bundle

\* The run ids generated so far.
RunIds == {RunId(k) : k \in 1..next_run}

\* The manifest or the bundle of run id is among the files, under some root.
HasResultFile(files, id) ==
    \E r \in Roots, f \in {"manifest.json", "bundle.zip"} : r \o <<id, f>> \in files

\* C12: a pass of the image loop that fails ends the request at once with an
\* error and processes no later image; a request that ended with an error has
\* no manifest.json and no bundle.zip and its run id is not bound, it writes
\* and binds nothing on its way out, and every bound run has both files.
C12_AbortOnFailure ==
    [][/\ \A t \in Threads :
             /\ (pc[t] = "images" /\ pc'[t] \notin {"images", "manifest"})
                   => /\ pc'[t] = "exit"
                      /\ loc'[t].status = 500
                      /\ loc'[t].detail = "ImageFailed"
                      /\ loc'[t].index = loc[t].index
             /\ (pc[t] = "images" /\ loc'[t] # loc[t]
                                    /\ pc'[t] \in {"images", "manifest"})
                   => loc'[t].detail = None /\ loc'[t].index = loc[t].index + 1
             /\ (pc'[t] = "exit" /\ loc'[t].status # 200)
                   => /\ loc'[t].run_id \notin DOMAIN runs'
                      /\ ~HasResultFile(DOMAIN fs', loc'[t].run_id)
             /\ (pc[t] = "exit" /\ loc[t].status # 200 /\ pc'[t] # pc[t])
                   => pc'[t] = "idle" /\ fs' = fs /\ runs' = runs
       /\ \A id \in RunIds' :
             /\ id \in DOMAIN runs'
                   => /\ \E r \in Roots : r \o <<id, "manifest.json">> \in DOMAIN fs'
                      /\ \E r \in Roots : r \o <<id, "bundle.zip">> \in DOMAIN fs'
             /\ HasResultFile(DOMAIN fs', id)
                   => \/ id \in DOMAIN runs'
                      \/ \E t \in Threads :
                            /\ loc'[t].run_id = id
                            /\ pc'[t] \in {"bundle", "bind"}]_vars

\* C12 witness: a request has failed on its second image, after the first was
\* processed; its run directory exists, without manifest or bundle, unbound.
C12_Witness ==
    \E t \in Threads :
       /\ pc[t] = "exit" /\ loc[t].detail = "ImageFailed" /\ loc[t].index = 1
       /\ Append(loc[t].current_root, loc[t].run_id) \in dirs
       /\ ~HasResultFile(DOMAIN fs, loc[t].run_id)
       /\ loc[t].run_id \notin DOMAIN runs

\* How often a warning occurs among the warnings of the run.
Count(warning) ==
    Cardinality({i \in DOMAIN nm.warnings : nm.warnings[i] = warning})

\* C13: rendering requested on a device other than CUDA never fails the run:
\* render_enabled is false, the warnings hold exactly one RenderSkipped, and no
\* output entry has a video or a depth video. Entries have a video exactly
\* when rendering was requested and eligible, a depth video only with a video,
\* and no failure of a run is due to rendering.
C13_RenderNeverFails ==
    /\ nm.phase \in {"get", "loop", "done"} =>
          /\ nm.status # 400
          /\ nm.render_enabled <=> (nm.render /\ nm.device = "cuda")
          /\ (nm.render /\ nm.device # "cuda")
                => /\ ~nm.render_enabled
                   /\ Count("RenderSkipped") = 1
                   /\ \A i \in DOMAIN nm.outputs :
                         nm.outputs[i].video = <<>> /\ nm.outputs[i].depth_video = <<>>
          /\ ~(nm.render /\ nm.device # "cuda") => Count("RenderSkipped") = 0
          /\ \A i \in DOMAIN nm.outputs :
                /\ nm.outputs[i].video # <<>> <=> (nm.render /\ nm.render_enabled)
                /\ nm.outputs[i].depth_video # <<>> => nm.outputs[i].video # <<>>
    /\ nm.phase = "failed" =>
          /\ nm.status = 400
          /\ nm.detail \in {"NoInput", "InvalidDevice", "DeviceUnavailable",
                            "EngineRejected"}
          /\ nm.outputs = <<>>

\* C13 witness: a run of two uploads on the CPU, asked to render, has completed
\* with the skipped-render warning next to the unsafe-checkpoint warning.
C13_Witness ==
    /\ nm.phase = "done" /\ nm.status = 200
    /\ nm.render /\ nm.device = "cpu" /\ ~nm.render_enabled
    /\ nm.warnings = <<"RenderSkipped", "UnsafeCheckpoint">>
    /\ Len(nm.outputs) = 2

\* The ValueErrors of PredictorCache.get.
Rejections == {"UnsafeLoadRejected", "DeserializationRejected"}

\* C14: a get that raises UnsafeLoadRejected (the cached entry was loaded
\* unsafely, allow_unsafe is false) or DeserializationRejected (the safe load
\* failed, allow_unsafe is false) leaves the cached keys, engines and flags as
\* they were; the request then fails with a 400 carrying that condition and
\* processes no image.
C14_RejectionFailsRequest ==
    [][\A t \in Threads :
          /\ (pc[t] = "cache" /\ pc'[t] = "got" /\ loc'[t].got.status = 400)
                => /\ models' = models /\ unsafe' = unsafe /\ loads' = loads
                   /\ loc'[t].got.detail \in Rejections
                   /\ ~loc'[t].allow_unsafe
                   /\ loc'[t].got.detail = "UnsafeLoadRejected"
                         => KeyOf(t) \in DOMAIN models /\ unsafe[KeyOf(t)]
                   /\ loc'[t].got.detail = "DeserializationRejected"
                         => /\ KeyOf(t) \notin DOMAIN models
                            /\ ~SafeLoadOk(fs[loc[t].checkpoint_path])
          /\ (pc[t] = "got" /\ pc'[t] # "got" /\ loc[t].got.detail \in Rejections)
                => /\ pc'[t] = "exit"
                   /\ loc'[t].status = 400
                   /\ loc'[t].detail = loc[t].got.detail
                   /\ loc'[t].index = 0
                   /\ models' = models /\ unsafe' = unsafe /\ loads' = loads
          /\ (pc[t] = "exit" /\ pc'[t] # "exit" /\ loc[t].detail \in Rejections)
                => /\ pc'[t] = "idle"
                   /\ loc[t].status = 400 /\ loc[t].index = 0
                   /\ models' = models /\ unsafe' = unsafe /\ loads' = loads]_vars

\* C14 witness: a request was rejected by the safe load of its checkpoint while
\* the cache holds an entry, and has failed without processing an image.
C14_Witness ==
    \E t \in Threads :
       /\ pc[t] = "exit" /\ loc[t].status = 400
       /\ loc[t].detail = "DeserializationRejected" /\ loc[t].index = 0
       /\ DOMAIN models # {}
       /\ KeyOf(t) \notin DOMAIN models

\* C15 as stated: a request whose engine is cached does not have to wait for
\* the compute lock: while some engine is cached and another request is in its
\* compute section, a queued request can still go on towards its cache read.
C15_CacheReadNoWait ==
    \A t \in Threads :
       (/\ pc[t] = "queued"
        /\ DOMAIN models # {}
        /\ \E u \in Threads \ {t} : pc[u] \in Section)
       => ENABLED Acquire(t)

\* C15 amended: the cache lock is a lock of its own, held only for the get
\* call, and a request never waits for it; but every get call is made by the
\* holder of the compute lock, so a cached entry is never read while another
\* request is in its compute section.
C15_CacheUnderCompute ==
    /\ \A t \in Threads :
          /\ pc[t] \in {"cache_wait", "cache", "got"}
                => /\ INFERENCE_LOCK = t
                   /\ \A u \in Threads \ {t} : pc[u] \notin Section
          /\ pc[t] = "cache_wait" => cache_lock = None
          /\ pc[t] = "cache" <=> cache_lock = t
    /\ cache_lock \in Threads \cup {None}

\* C15 witness: a request is reading an entry that is already cached, holding
\* both locks, after the request that loaded it has left.
C15_Witness ==
    \E t \in Threads :
       /\ pc[t] = "cache" /\ KeyOf(t) \in DOMAIN models
       /\ cache_lock = t /\ INFERENCE_LOCK = t
       /\ \A u \in Threads \ {t} : pc[u] = "idle"

\* C16: a key of the cache is never removed and its predictor instance and its
\* unsafe flag never change, whatever the step; the only change of a key is
\* from absent to present, and _models and _unsafe always have the same keys.
C16_WriteOnce ==
    [][/\ \A k \in DOMAIN models :
             /\ k \in DOMAIN models'
             /\ models'[k] = models[k]
             /\ unsafe'[k] = unsafe[k]
       /\ DOMAIN models = DOMAIN unsafe
       /\ DOMAIN models' = DOMAIN unsafe']_vars

\* C16 witness: an entry loaded unsafely has been read again by a later
\* request, and the cache holds its one instance.
C16_Witness ==
    \E t \in Threads :
       /\ pc[t] = "got" /\ loc[t].got.branch = "hit"
       /\ KeyOf(t) \in DOMAIN models /\ unsafe[KeyOf(t)]
       /\ models[KeyOf(t)] = 1 /\ next_predictor = 1

\* C17: store_checkpoint returns output_root/_checkpoints/<digest>.pt, a path
\* that the bytes and the root determine and that differs for different
\* bytes; it writes the file when no file of that name exists and otherwise
\* leaves the disk as it is, whatever the existing file holds.
C17_StoreIdempotent ==
    [][\A t \in Threads :
          (pc[t] = "store" /\ pc'[t] = "cache_wait")
          => IF loc'[t].checkpoint = None
             THEN loc'[t].checkpoint_path = NoPath /\ fs' = fs
             ELSE LET p == loc'[t].checkpoint_path
                  IN /\ p = loc[t].current_root
                               \o <<"_checkpoints", HexDigest(loc'[t].checkpoint) \o ".pt">>
                     /\ \A c \in Weights \ {loc'[t].checkpoint} :
                           p # checkpoint_path_of(c, loc[t].current_root)
                     /\ p \in DOMAIN fs'
                     /\ IF p \in DOMAIN fs
                        THEN fs' = fs
                        ELSE /\ DOMAIN fs' = DOMAIN fs \cup {p}
                             /\ fs'[p] = loc'[t].checkpoint
                             /\ \A q \in DOMAIN fs : fs'[q] = fs[q]]_vars

\* C17 witness: the weights wSafe were stored twice under /out1, where a file
\* of that name with other bytes was found and left alone both times.
C17_Witness ==
    \E t \in Threads :
       /\ pc[t] = "cache_wait" /\ next_run = 2
       /\ loc[t].checkpoint = "wSafe"
       /\ loc[t].checkpoint_path = StoredName
       /\ fs[StoredName] = "wPickle"

\* run_dir / name is a direct child of run_dir: name is one path component.
DirectChild(name) ==
    /\ name \notin {<<>>, <<".">>, <<".", ".">>}
    /\ \A i \in DOMAIN name : name[i] # "/"

\* C18: whatever the upload names (directory separators, "..", whitespace,
\* characters outside the whitelist, names that sanitize to nothing), every
\* file a run writes is a direct child of its run directory, and the names in
\* the output entries hold only whitelisted characters.
C18_WritesInsideRunDir ==
    /\ nm.phase \in {"loop", "done"} =>
          /\ \A f \in DOMAIN nm.written : DirectChild(f)
          /\ \A i \in DOMAIN nm.outputs :
                /\ \A j \in DOMAIN nm.outputs[i].name : IsKept(nm.outputs[i].name[j])
                /\ input_name(i, nm.outputs[i].name) \in DOMAIN nm.written
    /\ nm.phase = "done" =>
          {<<"manifest.json">>, <<"bundle.zip">>} \subseteq DOMAIN nm.written

\* C18 witness: a run whose uploads are named x/a.png and .. has completed.
C18_Witness ==
    /\ nm.phase = "done"
    /\ nm.uploads = <<<<"x", "/", "a", ".", "p", "n", "g">>, <<".", ".">>>>
    /\ <<"0", "2", "_", ".", ".">> \in DOMAIN nm.written
    /\ <<".", ".", ".", "p", "l", "y">> \in DOMAIN nm.written

\* The run ids and file names a download request may carry: one path segment
\* each.
DlRunIds == RunIds \cup {"run-1", "..", ".", "ln", "in", "_checkpoints"}
DlNames == {"bundle.zip", "manifest.json", "..", ".", "5afe.pt", "run-1", "ln"}

\* C19: download_file answers 200, 400 or 404. A 200 names an existing path
\* that is the canonical form of run_root/run_id/filename and lies inside the
\* canonical run_root/run_id, itself inside the canonical run root; a 404 is a
\* path confined in the same way that does not exist; a 400 is a run directory
\* outside the run root or a file path outside the run directory.
C19_DownloadConfined ==
    \A run_id \in DlRunIds, filename \in DlNames :
       LET d == download_file(run_id, filename)
           run_root == Canonical(get_run_root(run_id))
           run_dir == Canonical(Append(get_run_root(run_id), run_id))
           target == Canonical(get_run_root(run_id) \o <<run_id, filename>>)
           confined == Descends(run_dir, run_root) /\ Descends(target, run_dir)
       IN /\ d.status \in {200, 400, 404}
          /\ d.status = 200 => confined /\ d.path = target /\ Exists(target)
          /\ d.status = 404 => confined /\ ~Exists(target)
          /\ d.status = 400 => ~confined

\* C19 witness: with run-1 bound under /out1 and its weights stored, the
\* bundle and (through the link in) the stored weights are served, and the
\* link ln (as run id, and as file name under the run id "."), the run id ".."
\* and the file name ".." are refused.
C19_Witness ==
    /\ download_file("run-1", "bundle.zip") =
          [status |-> 200, path |-> <<"out1", "run-1", "bundle.zip">>]
    /\ download_file("in", "5afe.pt") =
          [status |-> 200, path |-> <<"out1", "_checkpoints", "5afe.pt">>]
    /\ download_file("ln", "run-1").status = 400
    /\ download_file("..", "run-1").status = 400
    /\ download_file("run-1", "..").status = 400
    /\ download_file("run-1", "ln").status = 404
    /\ download_file(".", "ln").status = 400

\* C20: for a run id that is not bound (an unknown id, a run that failed or
\* has not finished) get_run_root returns the global root of the moment, so its
\* result changes with every change of the root; for a bound run id no step
\* changes it.
C20_UnboundFollowsRoot ==
    [][\A id \in RunIds' \cup {"unknown"} :
          /\ id \notin DOMAIN runs' => get_run_root(id)' = get_root'
          /\ (id \notin DOMAIN runs' /\ get_root' # get_root)
                => /\ get_run_root(id) = get_root
                   /\ get_run_root(id)' # get_run_root(id)
          /\ id \in DOMAIN runs
                => /\ id \in DOMAIN runs'
                   /\ get_run_root(id)' = get_run_root(id)]_vars

\* C20 witness: after the root moved to /out2, a run that failed under /out1
\* is looked up under /out2, while a run bound under /out1 stays there.
C20_Witness ==
    \E failed \in RunIds \ DOMAIN runs, bound \in DOMAIN runs :
       /\ \A t \in Threads : loc[t].run_id # failed
       /\ Append(R1, failed) \in dirs
       /\ root = R2 /\ get_run_root(failed) = R2
       /\ get_run_root(bound) = R1

\* The compute section of run(): from the entry into `with INFERENCE_LOCK` to
\* the exit from it.
Computing == INFERENCE_LOCK # None

\* The thread that holds OutputState's lock is at the step that releases it.
OutputHolderLeaves ==
    /\ output_lock = Loop => ENABLED LoopLeave
    /\ \A t \in Threads :
          output_lock = t => ENABLED GetRootLeave(t) \/ ENABLED SetRunRootLeave(t)

\* The step takes a lock for a thread that holds OutputState's lock.
AcquiresUnderOutputLock ==
    \E who \in Threads \cup {Loop} :
       /\ output_lock = who
       /\ \/ INFERENCE_LOCK # who /\ INFERENCE_LOCK' = who
          \/ cache_lock # who /\ cache_lock' = who

\* C21: get_root, set_root, get_run_root and download_file never wait for
\* compute. The event loop takes neither the compute lock nor the cache lock;
\* a handler that stands before an OutputState call enters it as soon as
\* OutputState's lock is free, whether or not a request is in its compute
\* section; whoever holds OutputState's lock is at the step that releases it;
\* and no step takes another lock for the holder of OutputState's lock.
C21_RegistryNeverWaitsForCompute ==
    /\ [](/\ INFERENCE_LOCK # Loop
          /\ cache_lock # Loop
          /\ (ev.call # None /\ output_lock = None) => ENABLED LoopEnter
          /\ OutputHolderLeaves)
    /\ [][~AcquiresUnderOutputLock]_vars

\* A request is in its image loop with the root it read, /out1, and meanwhile
\* select_output_root has set the root to /out2 and returned.
C21_Witness ==
    /\ Computing
    /\ pc["t1"] = "images"
    /\ loc["t1"].current_root = R1
    /\ root = R2
    /\ ev = EvIdle

\* The locks thread t holds.
Held(t) ==
    {l \in {"INFERENCE_LOCK", "cache_lock", "output_lock"} :
        \/ l = "INFERENCE_LOCK" /\ INFERENCE_LOCK = t
        \/ l = "cache_lock" /\ cache_lock = t
        \/ l = "output_lock" /\ output_lock = t}

\* The step ends the request of thread t.
Ends(t) == pc[t] # "idle" /\ pc'[t] = "idle"

\* The step takes the cache lock without the compute lock, or the compute
\* lock with the cache lock.
OutOfOrder ==
    \E t \in Threads :
       \/ cache_lock # t /\ cache_lock' = t /\ INFERENCE_LOCK # t
       \/ INFERENCE_LOCK # t /\ INFERENCE_LOCK' = t /\ cache_lock = t

\* Requests are in flight and no thread can take a step.
Deadlocked ==
    /\ \E t \in Threads : pc[t] # "idle"
    /\ \A t \in Threads : ~ENABLED Worker(t)
    /\ ~ENABLED LoopLeave

====
